---- MODULE Spec2Model ----
(***************************************************************************)
(* Model of core/settings/storage.py: the static/media settings fragment.  *)
(*                                                                         *)
(* The module body runs once per process when the settings package is     *)
(* imported.  It derives BASE_DIR from the module's __file__ and the       *)
(* process's working directory, and from it STATIC_ROOT, STATICFILES_DIRS  *)
(* and MEDIA_ROOT; STATIC_URL and MEDIA_URL are literals.  After the      *)
(* import the hosting framework's threads read the module attributes.     *)
(*                                                                         *)
(* Strings are sequences of one-character strings, so that os.path.join,   *)
(* os.fspath and the prefix tests work on characters as the code does.    *)
(* A pathlib path is a record [abs, parts].  Symbolic links are not       *)
(* modelled: Path.resolve acts on the working directory and on "..".      *)
(***************************************************************************)
EXTENDS Naturals, Sequences, FiniteSets

VARIABLES
    fs,       \* host filesystem: the kinds of directory that exist and are writable
    install,  \* install[p]: directory the process's code is deployed in, or NoInstall
    ns,       \* ns[p]: the namespace of module storage in process p, or NotLoaded
    obs       \* obs[r]: the attribute reader r read last and its value, or NoObs

vars == <<fs, install, ns, obs>>

----------------------------------------------------------------------------
(* Bounds *)

NumProcs == 2
NumReaders == 2
MaxDepth == 1

Procs == 1..NumProcs
Readers == 1..NumReaders

\* reader r is a thread of process ProcOf(r)
ProcOf(r) == ((r - 1) % NumProcs) + 1

----------------------------------------------------------------------------
(* Strings *)

SEP == "/"
STR_static == <<"s","t","a","t","i","c">>
STR_media == <<"m","e","d","i","a">>
STR_core == <<"c","o","r","e">>
STR_core_static == STR_core \o <<SEP>> \o STR_static
STR_settings == <<"s","e","t","t","i","n","g","s">>
STR_storage_py == <<"s","t","o","r","a","g","e",".","p","y">>
STR_app == <<"a","p","p">>
DOTDOT == <<".",".">>

\* the directories above the project, outermost first; the first is named
\* like the collection target
DeployPath == <<STR_static, STR_app, STR_core, STR_media>>

\* the project-relative location of this module: core/settings/storage.py
ModulePath == <<STR_core, STR_settings, STR_storage_py>>

----------------------------------------------------------------------------
(* pathlib and os.path *)

Root == [abs |-> TRUE, parts |-> <<>>]

AbsPath(parts) == [abs |-> TRUE, parts |-> parts]
RelPath(parts) == [abs |-> FALSE, parts |-> parts]

\* PurePath.parent: drops the last part; the parent of an anchor is itself
Parent(p) ==
    IF p.parts = <<>> THEN p
    ELSE [p EXCEPT !.parts = SubSeq(p.parts, 1, Len(p.parts) - 1)]

\* the ".." handling of Path.resolve: ".." at the root stays at the root
RECURSIVE Collapse(_, _)
Collapse(done, rest) ==
    IF rest = <<>> THEN done
    ELSE IF Head(rest) = DOTDOT
         THEN Collapse(IF done = <<>> THEN <<>>
                       ELSE SubSeq(done, 1, Len(done) - 1), Tail(rest))
         ELSE Collapse(Append(done, Head(rest)), Tail(rest))

\* Path.resolve(): make absolute against the working directory, normalise
Resolve(cwd, p) ==
    AbsPath(Collapse(<<>>, IF p.abs THEN p.parts ELSE cwd.parts \o p.parts))

RECURSIVE JoinParts(_)
JoinParts(parts) ==
    IF parts = <<>> THEN <<>>
    ELSE IF Len(parts) = 1 THEN Head(parts)
         ELSE Head(parts) \o <<SEP>> \o JoinParts(Tail(parts))

\* os.fspath(Path): "/" for the root, "." for the empty relative path
fspath(p) ==
    IF p.abs THEN <<SEP>> \o JoinParts(p.parts)
    ELSE IF p.parts = <<>> THEN <<".">> ELSE JoinParts(p.parts)

\* posixpath.join(a, b) for two arguments
os_path_join(a, b) ==
    IF b # <<>> /\ Head(b) = SEP THEN b
    ELSE IF a = <<>> \/ a[Len(a)] = SEP THEN a \o b
         ELSE a \o <<SEP>> \o b

----------------------------------------------------------------------------
(* The module body, storage.py lines 7-19 *)

\* two .parent only: the package directory instead of the project directory
BASE_DIR_two_parents(cwd, file) == Parent(Parent(Resolve(cwd, file)))

\* no .resolve(): the ancestors of __file__ as spelled
BASE_DIR_unresolved(cwd, file) == Parent(Parent(Parent(file)))

BASE_DIR(cwd, file) == Parent(Parent(Parent(Resolve(cwd, file))))

STATIC_URL_bare == <<SEP>>

STATIC_URL == <<SEP>> \o STR_static \o <<SEP>>

\* a leading separator makes os.path.join discard the base directory
STATIC_ROOT_rooted(base) == os_path_join(fspath(base), <<SEP>> \o STR_static)

STATIC_ROOT(base) == os_path_join(fspath(base), STR_static)

\* the source directory placed at the collection target
STATICFILES_DIRS_in_root(base) == << os_path_join(fspath(base), STR_static) >>

STATICFILES_DIRS(base) == << os_path_join(fspath(base), STR_core_static) >>

\* the base directory left out of the join
MEDIA_ROOT_relative(base) == STR_media

MEDIA_ROOT(base) == os_path_join(fspath(base), STR_media)

MEDIA_URL_no_trailing == <<SEP>> \o STR_media

MEDIA_URL == <<SEP>> \o STR_media \o <<SEP>>

\* markers, each of the shape of the value it stands in for
NotLoaded == [loaded |-> FALSE]
Raised == [raised |-> TRUE]
NoInstall == << <<>> >>
NoObs == [name |-> "none"]

DirKinds == {"STATIC_ROOT", "STATICFILES_DIRS", "MEDIA_ROOT"}

Namespace(base, mediaRoot) ==
    [BASE_DIR         |-> base,
     STATIC_URL       |-> STATIC_URL,
     STATIC_ROOT      |-> STATIC_ROOT(base),
     STATICFILES_DIRS |-> STATICFILES_DIRS(base),
     MEDIA_ROOT       |-> mediaRoot,
     MEDIA_URL        |-> MEDIA_URL]

\* the media root taken from the working directory instead of BASE_DIR
storage_media_from_cwd(cwd, file, usable) ==
    Namespace(BASE_DIR(cwd, file), os_path_join(fspath(cwd), STR_media))

\* the target directories required to be present while the module loads
storage_requires_dirs(cwd, file, usable) ==
    IF {"STATIC_ROOT", "MEDIA_ROOT"} \subseteq usable
    THEN Namespace(BASE_DIR(cwd, file), MEDIA_ROOT(BASE_DIR(cwd, file)))
    ELSE Raised

\* the namespace the module body leaves behind; the filesystem state
\* `usable` is available to it and is not consulted
storage(cwd, file, usable) ==
    Namespace(BASE_DIR(cwd, file), MEDIA_ROOT(BASE_DIR(cwd, file)))

----------------------------------------------------------------------------
(* Environment of the import *)

\* the directories a deployment may live in: the root and the directories
\* along DeployPath, to depth MaxDepth
Installs ==
    { SubSeq(DeployPath, 1, k) :
          k \in 0..(IF MaxDepth < Len(DeployPath) THEN MaxDepth ELSE Len(DeployPath)) }

\* the ways __file__ can name <inst>/core/settings/storage.py, each with
\* the working directory it is valid in
Spellings(inst) ==
    { [cwd |-> AbsPath(c), file |-> AbsPath(inst \o ModulePath)] :
          c \in {<<>>, inst} }
    \cup
    { [cwd  |-> AbsPath(SubSeq(inst, 1, k)),
       file |-> RelPath(SubSeq(inst, k + 1, Len(inst)) \o ModulePath)] :
          k \in 0..Len(inst) }
    \cup
    { [cwd  |-> AbsPath(inst \o <<STR_core>>),
       file |-> RelPath(<<DOTDOT>> \o ModulePath)],
      [cwd  |-> AbsPath(inst),
       file |-> AbsPath(inst \o <<STR_core, DOTDOT>> \o ModulePath)] }

AttrNames == {"STATIC_URL", "STATIC_ROOT", "STATICFILES_DIRS", "MEDIA_ROOT", "MEDIA_URL"}

Attr(n, name) ==
    CASE name = "STATIC_URL" -> n.STATIC_URL
      [] name = "STATIC_ROOT" -> n.STATIC_ROOT
      [] name = "STATICFILES_DIRS" -> n.STATICFILES_DIRS
      [] name = "MEDIA_ROOT" -> n.MEDIA_ROOT
      [] name = "MEDIA_URL" -> n.MEDIA_URL

----------------------------------------------------------------------------
(* State machine *)

Init ==
    /\ fs \in SUBSET DirKinds
    /\ install = [p \in Procs |-> NoInstall]
    /\ ns = [p \in Procs |-> NotLoaded]
    /\ obs = [r \in Readers |-> NoObs]

\* process p starts from some deployment and imports the module: the whole
\* module body runs under the import lock
Load(p) ==
    /\ ns[p] = NotLoaded
    /\ \E inst \in Installs :
         \E sp \in Spellings(inst) :
            /\ install' = [install EXCEPT ![p] = inst]
            /\ ns' = [ns EXCEPT ![p] = storage(sp.cwd, sp.file, fs)]
    /\ UNCHANGED <<fs, obs>>

\* a reader that extends the list it was handed, in place
ReadAndExtend(r, name) ==
    LET p == ProcOf(r)
    IN /\ ns[p] \notin {NotLoaded, Raised}
       /\ obs' = [obs EXCEPT ![r] = [name |-> name, value |-> Attr(ns[p], name)]]
       /\ ns' = [ns EXCEPT ![p].STATICFILES_DIRS = Append(@, ns[p].STATIC_ROOT)]
       /\ UNCHANGED <<fs, install>>

\* reader r, a thread of a process that has imported the module, reads
\* one of its attributes; no lock is taken
Read(r, name) ==
    LET p == ProcOf(r)
    IN /\ ns[p] \notin {NotLoaded, Raised}
       /\ obs' = [obs EXCEPT ![r] = [name |-> name, value |-> Attr(ns[p], name)]]
       /\ UNCHANGED <<fs, install, ns>>

Next ==
    \/ \E p \in Procs : Load(p)
    \/ \E r \in Readers, name \in AttrNames : Read(r, name)

Spec == Init /\ [][Next]_vars

----------------------------------------------------------------------------
(* Vocabulary of the properties *)

Loaded(p) == ns[p] \notin {NotLoaded, Raised}

\* the components of a path string: the non-empty runs between separators
RECURSIVE Split(_, _, _)
Split(s, cur, acc) ==
    IF s = <<>> THEN (IF cur = <<>> THEN acc ELSE Append(acc, cur))
    ELSE IF Head(s) = SEP
         THEN Split(Tail(s), <<>>, IF cur = <<>> THEN acc ELSE Append(acc, cur))
         ELSE Split(Tail(s), Append(cur, Head(s)), acc)

Components(s) == Split(s, <<>>, <<>>)

IsPrefix(a, b) == Len(a) <= Len(b) /\ SubSeq(b, 1, Len(a)) = a
IsProperPrefix(a, b) == Len(a) < Len(b) /\ SubSeq(b, 1, Len(a)) = a
Comparable(a, b) == IsPrefix(a, b) \/ IsPrefix(b, a)

Chars == {SEP, ".", "a", "c", "d", "e", "g", "i", "m", "n", "o", "p", "r", "s", "t", "y"}
IsString(s) == s \in Seq(Chars)

\* request paths a server may be asked for
RequestURLs ==
    { <<SEP>>,
      STATIC_URL, MEDIA_URL,
      STATIC_URL \o STR_app, MEDIA_URL \o STR_app,
      STATIC_URL \o STR_media \o <<SEP>>, MEDIA_URL \o STR_static \o <<SEP>>,
      <<SEP>> \o STR_media, <<SEP>> \o STR_static }

SameValues(m, n) == \A name \in AttrNames : Attr(m, name) = Attr(n, name)

----------------------------------------------------------------------------
(* Properties *)

\* C1: in every process that has loaded the module, STATIC_ROOT and
\* MEDIA_ROOT have the components of BASE_DIR as a proper leading sequence
\* of their own path components.
C1_RootsUnderBaseDir ==
    \A p \in Procs : Loaded(p) =>
        LET b == Components(fspath(ns[p].BASE_DIR))
        IN /\ IsProperPrefix(b, Components(ns[p].STATIC_ROOT))
           /\ IsProperPrefix(b, Components(ns[p].MEDIA_ROOT))

C1_Witness ==
    \E p \in Procs : Loaded(p) /\ ns[p].BASE_DIR.parts # <<>>
                     /\ Len(Components(ns[p].STATIC_ROOT)) = Len(ns[p].BASE_DIR.parts) + 1

\* C2: STATIC_URL and MEDIA_URL differ, neither is a prefix of the other,
\* and no request URL starts with both.
C2_UrlPrefixesDisjoint ==
    \A p \in Procs : Loaded(p) =>
        /\ ns[p].STATIC_URL # ns[p].MEDIA_URL
        /\ ~IsPrefix(ns[p].STATIC_URL, ns[p].MEDIA_URL)
        /\ ~IsPrefix(ns[p].MEDIA_URL, ns[p].STATIC_URL)
        /\ \A u \in RequestURLs :
              ~(IsPrefix(ns[p].STATIC_URL, u) /\ IsPrefix(ns[p].MEDIA_URL, u))

C2_Witness ==
    \E p \in Procs : Loaded(p)
        /\ (\E u \in RequestURLs : IsPrefix(ns[p].STATIC_URL, u))
        /\ (\E v \in RequestURLs : IsPrefix(ns[p].MEDIA_URL, v))

\* C3: two computations of the constants from the same base directory give
\* the same STATIC_URL, STATIC_ROOT, STATICFILES_DIRS, MEDIA_ROOT and
\* MEDIA_URL, whatever working directory and spelling of __file__ each used.
C3_RederivationIdentical ==
    \A p, q \in Procs :
        (Loaded(p) /\ Loaded(q) /\ ns[p].BASE_DIR = ns[q].BASE_DIR)
            => SameValues(ns[p], ns[q])

C3_Witness ==
    \E p, q \in Procs : p # q /\ Loaded(p) /\ Loaded(q)
                        /\ ns[p].BASE_DIR = ns[q].BASE_DIR
                        /\ ns[p].BASE_DIR.parts # <<>>

\* C4: STATIC_URL and MEDIA_URL each start with "/" and end with "/".
C4_UrlsSlashDelimited ==
    \A p \in Procs : Loaded(p) =>
        /\ Head(ns[p].STATIC_URL) = SEP
        /\ ns[p].STATIC_URL[Len(ns[p].STATIC_URL)] = SEP
        /\ Head(ns[p].MEDIA_URL) = SEP
        /\ ns[p].MEDIA_URL[Len(ns[p].MEDIA_URL)] = SEP

C4_Witness ==
    \E p \in Procs : Loaded(p) /\ Len(ns[p].STATIC_URL) > 2 /\ Len(ns[p].MEDIA_URL) > 2

C7_PathsFollowBaseDir ==
    /\ \A p \in Procs : Loaded(p) =>
          /\ AttrNames \subseteq DOMAIN ns[p]
          /\ IsString(ns[p].STATIC_URL) /\ IsString(ns[p].MEDIA_URL)
          /\ IsString(ns[p].STATIC_ROOT) /\ IsString(ns[p].MEDIA_ROOT)
          /\ ns[p].STATICFILES_DIRS \in Seq(Seq(Chars))
          /\ IsPrefix(fspath(ns[p].BASE_DIR), ns[p].STATIC_ROOT)
          /\ IsPrefix(fspath(ns[p].BASE_DIR), ns[p].MEDIA_ROOT)
          /\ \A i \in DOMAIN ns[p].STATICFILES_DIRS :
                IsPrefix(fspath(ns[p].BASE_DIR), ns[p].STATICFILES_DIRS[i])
    /\ \A p, q \in Procs :
          (Loaded(p) /\ Loaded(q)) =>
             /\ ns[p].STATIC_URL = ns[q].STATIC_URL
             /\ ns[p].MEDIA_URL = ns[q].MEDIA_URL
             /\ ns[p].BASE_DIR # ns[q].BASE_DIR =>
                   /\ ns[p].STATIC_ROOT # ns[q].STATIC_ROOT
                   /\ ns[p].MEDIA_ROOT # ns[q].MEDIA_ROOT
                   /\ Len(ns[p].STATICFILES_DIRS) = Len(ns[q].STATICFILES_DIRS)
                   /\ \A i \in DOMAIN ns[p].STATICFILES_DIRS :
                         ns[p].STATICFILES_DIRS[i] # ns[q].STATICFILES_DIRS[i]

C7_Witness ==
    \E p, q \in Procs : Loaded(p) /\ Loaded(q) /\ ns[p].BASE_DIR # ns[q].BASE_DIR
                        /\ ns[p].BASE_DIR.parts = <<>>

\* C8: BASE_DIR is the third ancestor of the module file's resolved
\* absolute path, the directory holding the core package, and the one
\* STATICFILES_DIRS entry is BASE_DIR/core/static, inside that package.
C8_BaseDirHoldsCorePackage ==
    \A p \in Procs : Loaded(p) =>
        LET resolved == AbsPath(install[p] \o ModulePath)
            package == Parent(Parent(resolved))
        IN /\ ns[p].BASE_DIR = Parent(package)
           /\ ns[p].BASE_DIR = AbsPath(install[p])
           /\ package.parts = install[p] \o <<STR_core>>
           /\ Len(ns[p].STATICFILES_DIRS) = 1
           /\ Components(ns[p].STATICFILES_DIRS[1])
                 = ns[p].BASE_DIR.parts \o <<STR_core, STR_static>>
           /\ IsProperPrefix(package.parts, Components(ns[p].STATICFILES_DIRS[1]))

C8_Witness ==
    \E p \in Procs : Loaded(p) /\ install[p] # <<>>
                     /\ Len(Components(ns[p].STATICFILES_DIRS[1])) = Len(install[p]) + 2

\* C9: STATIC_ROOT differs from MEDIA_ROOT, STATIC_ROOT is not an entry of
\* STATICFILES_DIRS, and none of STATIC_ROOT, MEDIA_ROOT and the
\* STATICFILES_DIRS entries lies at or under another.
C9_TargetsKeptApart ==
    \A p \in Procs : Loaded(p) =>
        LET sr == Components(ns[p].STATIC_ROOT)
            mr == Components(ns[p].MEDIA_ROOT)
            dirs == ns[p].STATICFILES_DIRS
        IN /\ ns[p].STATIC_ROOT # ns[p].MEDIA_ROOT
           /\ \A i \in DOMAIN dirs : dirs[i] # ns[p].STATIC_ROOT
           /\ ~Comparable(sr, mr)
           /\ \A i \in DOMAIN dirs :
                 /\ ~Comparable(sr, Components(dirs[i]))
                 /\ ~Comparable(mr, Components(dirs[i]))
           /\ \A i, j \in DOMAIN dirs :
                 i # j => ~Comparable(Components(dirs[i]), Components(dirs[j]))

C9_Witness ==
    \E p \in Procs : Loaded(p) /\ install[p] = <<STR_static>>
                     /\ ns[p].STATICFILES_DIRS # <<>>

\* C10: the import never raises, and leaves the values it would leave on
\* a host where every directory exists and is writable, also when the
\* static root, the media root or the static source directory is missing
\* or unwritable.
C10_LoadIgnoresFilesystem ==
    \A p \in Procs : install[p] # NoInstall =>
        /\ ns[p] # Raised
        /\ ns[p] = storage(Root, AbsPath(install[p] \o ModulePath), DirKinds)

C10_Witness ==
    \E p \in Procs : install[p] # NoInstall /\ Loaded(p) /\ fs = {}

====
